---- MODULE Spec2Model ----
(***************************************************************************)
(* Model of the classification core of the CSV data processor:             *)
(*   - CategoryGrouper (services, grouping rules and GetGroup)             *)
(*   - levenshteinDistance (edit-distance primitive)                       *)
(*   - TermNormalizer (services/term_normalizer.go)                        *)
(* Go strings are byte strings.  A string of the program is a string here, *)
(* one character per byte; Len is Go's len, SubSeq(s, i, i) is s[i-1].     *)
(***************************************************************************)
EXTENDS Integers, Sequences, FiniteSets, TLC

VARIABLES
    rules,      \* CategoryGrouper.rules: keyword -> group
    gOp,        \* the Grouper operation that ran last
    gArg,       \* its string argument (GetGroup's category, AddRule's term)
    gGroup,     \* AddRule's group argument
    gRet,       \* the string GetGroup returned
    gAll,       \* the map GetAllGroups returned
    nAdds       \* number of AddRule calls so far (bounded by MaxAdds)

VARIABLES
    dOp,        \* "input" before the function applied to drawn arguments
                \* (levenshteinDistance, calculateTokenOverlap) has run, its name after
    dS1,        \* the first argument
    dS2,        \* the second argument
    dRet        \* the value it returned

VARIABLES
    root,             \* TermNormalizer.root: the trie, node path -> node fields
    canonicalTerms,   \* TermNormalizer.canonicalTerms: normalized -> canonical
    termVariations,   \* TermNormalizer.termVariations: canonical -> variations
    fuzzyMatchCache,  \* TermNormalizer.fuzzyMatchCache: term -> canonical
    nOp,        \* the TermNormalizer operation that ran last
    nArg,       \* NormalizeTerm's argument
    nRet,       \* the string NormalizeTerm returned
    nList,      \* the slice GetCanonicalTerms returned
    nCalls      \* number of NormalizeTerm calls so far (bounded by MaxCalls)

VARIABLES
    mu,         \* TermNormalizer.mu: [writer: the goroutine holding Lock or 0,
                \*                     readers: the goroutines holding RLock]
    pc,         \* goroutine -> its position in NormalizeTerm
    tTerm,      \* goroutine -> the argument of its NormalizeTerm call
    tCanonical, \* goroutine -> the local `canonical` it read under RLock
    tRet,       \* goroutine -> the string its call returned
    mPc,        \* position of the goroutine running MergeSimilarTerms
    mCanonicals,\* its local `canonicals`
    mI,         \* its loop index i (from 1)
    mJ,         \* its loop index j (from 1)
    mMerged,    \* its local map `merged`
    nMerges     \* number of MergeSimilarTerms calls started (bounded by MaxMerges)

grouperVars == <<rules, gOp, gArg, gGroup, gRet, gAll, nAdds>>

distanceVars == <<dOp, dS1, dS2, dRet>>

tnVars == <<root, canonicalTerms, termVariations, fuzzyMatchCache>>

normalizerVars == <<tnVars, nOp, nArg, nRet, nList, nCalls>>

threadVars == <<mu, pc, tTerm, tCanonical, tRet>>

mergerVars == <<mPc, mCanonicals, mI, mJ, mMerged, nMerges>>

concurrentVars == <<threadVars, mergerVars>>

vars == <<grouperVars, distanceVars, normalizerVars, concurrentVars>>

----------------------------------------------------------------------------
(* Bounds of the model. *)

\* AddRule calls in one behaviour.
MaxAdds == 2

\* Words in a generated phrase given to GetGroup.
MaxWords == 2

\* Length of the generated strings given to levenshteinDistance.
MaxLen == 3

\* NormalizeTerm calls in one behaviour.
MaxCalls == 3

\* Goroutines calling NormalizeTerm concurrently.
MaxThreads == 2

\* MergeSimilarTerms calls run beside them.
MaxMerges == 1

----------------------------------------------------------------------------
(* Strings: the parts of package strings the program uses. *)

Char(s, i) == SubSeq(s, i, i)

UpperLetters == "ABCDEFGHIJKLMNOPQRSTUVWXYZ"
LowerLetters == "abcdefghijklmnopqrstuvwxyz"

\* unicode.ToLower on one byte of an ASCII string.
LowerChar(c) ==
    IF \E i \in 1..26 : Char(UpperLetters, i) = c
    THEN Char(LowerLetters, CHOOSE i \in 1..26 : Char(UpperLetters, i) = c)
    ELSE c

RECURSIVE ToLower(_)
ToLower(s) ==
    IF s = "" THEN "" ELSE LowerChar(Char(s, 1)) \o ToLower(SubSeq(s, 2, Len(s)))

\* unicode.IsSpace on one byte of an ASCII string.
IsSpace(c) == c \in {" ", "\t", "\n", "\r", "\f"}

RECURSIVE TrimLeft(_)
TrimLeft(s) ==
    IF s # "" /\ IsSpace(Char(s, 1)) THEN TrimLeft(SubSeq(s, 2, Len(s))) ELSE s

RECURSIVE TrimRight(_)
TrimRight(s) ==
    IF s # "" /\ IsSpace(Char(s, Len(s))) THEN TrimRight(SubSeq(s, 1, Len(s) - 1)) ELSE s

TrimSpace(s) == TrimRight(TrimLeft(s))

\* strings.Contains(s, substr)
Contains(s, substr) ==
    \E i \in 1..(Len(s) - Len(substr) + 1) : SubSeq(s, i, i + Len(substr) - 1) = substr

----------------------------------------------------------------------------
(* The taxonomy table. *)

categoryDefinitions ==
    "doctor" :> <<
         "cardiologist", "neurologist", "ent", "orthopedic", "pediatrician",
         "dermatologist", "psychiatrist", "surgeon", "physician", "doctor",
         "dentist", "orthodontist", "oncologist", "radiologist",
         "dr", "doc", "md", "medical doctor" >> @@
    "software engineer" :> <<
         "developer", "programmer", "software engineer", "coder",
         "frontend developer", "backend developer", "full stack developer",
         "web developer", "mobile developer", "devops engineer",
         "software engineering", "software development", "web development",
         "mobile development", "application development", "coding", "software",
         "dev", "swe", "se" >> @@
    "lawyer" :> <<
         "lawyer", "attorney", "advocate", "solicitor", "barrister",
         "legal counsel", "legal advisor",
         "atty", "esq", "legal" >> @@
    "teacher" :> <<
         "teacher", "professor", "instructor", "educator", "tutor",
         "lecturer", "trainer",
         "prof" >> @@
    "manager" :> <<
         "manager", "director", "executive", "ceo", "cto", "cfo",
         "president", "vp", "vice president", "team lead",
         "mgr", "supervisor", "lead" >> @@
    "designer" :> <<
         "designer", "graphic designer", "ui designer", "ux designer",
         "product designer", "artist", "illustrator",
         "branding", "brand", "visual design", "creative design",
         "ux", "ui", "graphic" >> @@
    "sales professional" :> <<
         "sales", "salesperson", "sales rep", "sales representative",
         "account executive", "business development", "marketing",
         "marketing manager", "brand manager",
         "copywriting", "positioning", "strategy", "insight",
         "sales rep", "ae", "bdm" >> @@
    "accountant" :> <<
         "accountant", "auditor", "financial analyst", "bookkeeper",
         "tax consultant", "chartered accountant", "cpa",
         "ca", "finance" >> @@
    "engineer" :> <<
         "engineer", "mechanical engineer", "civil engineer", "electrical engineer",
         "chemical engineer", "aerospace engineer", "industrial engineer",
         "environmental engineer", "biomedical engineer",
         "eng", "engr" >> @@
    "healthcare professional" :> <<
         "nurse", "pharmacist", "therapist", "physiotherapist",
         "paramedic", "medical assistant", "lab technician",
         "radiographer", "dietitian", "nutritionist",
         "rn", "lpn", "medical staff" >> @@
    "construction worker" :> <<
         "construction worker", "contractor", "builder", "carpenter",
         "electrician", "plumber", "mason", "welder",
         "tradesman" >> @@
    "hospitality professional" :> <<
         "chef", "cook", "waiter", "waitress", "bartender",
         "hotel manager", "receptionist", "concierge",
         "server", "hospitality" >> @@
    "retail professional" :> <<
         "cashier", "store manager", "retail assistant", "sales associate",
         "merchandiser", "stock clerk" >> @@
    "transportation worker" :> <<
         "driver", "truck driver", "delivery driver", "pilot",
         "captain", "logistics coordinator", "dispatcher" >> @@
    "manufacturing worker" :> <<
         "factory worker", "production supervisor", "assembly line worker",
         "quality inspector", "machine operator", "foreman" >> @@
    "public servant" :> <<
         "police officer", "firefighter", "government official",
         "civil servant", "social worker", "public administrator" >> @@
    "media professional" :> <<
         "journalist", "reporter", "editor", "writer", "author",
         "photographer", "videographer", "content creator" >> @@
    "researcher" :> <<
         "scientist", "researcher", "analyst", "data scientist",
         "biologist", "chemist", "physicist", "research assistant",
         "research", "analysis", "data analysis", "scientific research" >> @@
    "hr professional" :> <<
         "hr", "human resources", "recruiter", "talent acquisition",
         "hr manager", "hr specialist", "hiring manager",
         "recruitment", "talent" >> @@
    "security professional" :> <<
         "security", "cybersecurity", "information security", "network security",
         "security analyst", "security engineer", "homeland security",
         "airport security", "screening", "explosive detection",
         "cargo screening", "checkpoint screening", "baggage screening" >> @@
    "technology specialist" :> <<
         "technology", "advanced technology", "innovation", "tech",
         "it specialist", "systems analyst", "network administrator",
         "database administrator", "cloud computing", "ai", "machine learning",
         "computed tomography", "ct scan", "imaging technology" >> @@
    "internet professional" :> <<
         "internet", "internet marketing", "digital marketing", "digital",
         "seo", "sem", "search engine optimization", "search engine marketing",
         "online marketing", "web marketing", "ecommerce", "e-commerce",
         "social media marketing", "content marketing", "email marketing",
         "technicalseo", "technical seo", "digitaltransformation", "digital transformation",
         "marketingautomation", "marketing automation", "crm" >> @@
    "drawings" :> <<
         "drawings", "sketch", "blueprint", "draft", "illustration",
         "diagram" >> @@
    "design" :> <<
         "design" >>

Categories == DOMAIN categoryDefinitions

\* The keys initializeRules writes for each category.
Keywords ==
    [category \in Categories |->
        {ToLower(categoryDefinitions[category][i]) :
            i \in 1..Len(categoryDefinitions[category])}]

BaseKeys == UNION {Keywords[category] : category \in Categories}

\* The categories whose keyword list holds k.
CategoriesOf(k) == {category \in Categories : k \in Keywords[category]}

\* initializeRules ranges over the table in Go's unspecified map order: a keyword
\* listed under several categories ends with the one visited last, any of them.
SharedKeys == {k \in BaseKeys : Cardinality(CategoriesOf(k)) > 1}

initializeRules ==
    {[k \in BaseKeys |->
         IF k \in SharedKeys THEN last[k] ELSE CHOOSE c \in CategoriesOf(k) : TRUE] :
     last \in {f \in [SharedKeys -> Categories] : \A k \in SharedKeys : f[k] \in CategoriesOf(k)}}

----------------------------------------------------------------------------
(* levenshteinDistance: the matrix is filled row by row. *)

\* The minimum of the first two values only.
minOfFirstTwo(a, b, c) == IF a < b THEN a ELSE b

min(a, b, c) ==
    IF a < b THEN (IF a < c THEN a ELSE c)
    ELSE IF b < c THEN b ELSE c

abs(x) == IF x < 0 THEN -x ELSE x

\* The inner loop: row i of the matrix, cell by cell.  Cell (i, j) of the code is
\* matrix[i + 1][j + 1] here; row holds the cells 0..j-1 of row i.
RECURSIVE FillRow(_, _, _, _, _)
FillRow(s1, s2, matrix, i, row) ==
    LET j == Len(row) IN
    IF j > Len(s2) THEN row
    ELSE LET cost == IF Char(s1, i) # Char(s2, j) THEN 1 ELSE 0
             cell == min(matrix[i][j + 1] + 1,     \* deletion
                         row[j] + 1,               \* insertion
                         matrix[i][j] + cost)      \* substitution
         IN  FillRow(s1, s2, matrix, i, Append(row, cell))

\* The outer loop: matrix holds the rows 0..i-1.
RECURSIVE FillMatrix(_, _, _)
FillMatrix(s1, s2, matrix) ==
    LET i == Len(matrix) IN
    IF i > Len(s1) THEN matrix
    ELSE FillMatrix(s1, s2, Append(matrix, FillRow(s1, s2, matrix, i, <<i>>)))

levenshteinDistance(s1, s2) ==
    IF Len(s1) = 0 THEN Len(s2)
    ELSE IF Len(s2) = 0 THEN Len(s1)
    ELSE FillMatrix(s1, s2, << [j \in 1..(Len(s2) + 1) |-> j - 1] >>)[Len(s1) + 1][Len(s2) + 1]

----------------------------------------------------------------------------
(* CategoryGrouper *)

\* PartialMatches without the word boundaries: the keyword anywhere in the category.
PartialMatchesAnywhere(r, cleaned) ==
    {key \in DOMAIN r : Contains(cleaned, key)}

\* Keys the partial-match loop accepts: the keyword is a complete word.
PartialMatches(r, cleaned) ==
    LET padded == " " \o cleaned \o " " IN
    {key \in DOMAIN r : Contains(padded, " " \o key \o " ")}

\* FuzzyCandidates without the minimum length of the category.
FuzzyCandidatesAnyLength(r, cleaned) ==
    {key \in DOMAIN r : abs(Len(cleaned) - Len(key)) <= 1}

\* Keys the fuzzy loop measures.
FuzzyCandidates(r, cleaned) ==
    {key \in DOMAIN r : abs(Len(cleaned) - Len(key)) <= 1 /\ Len(cleaned) >= 5}

maxDistance == 1

\* The fuzzy loop keeps the first key it meets at the least distance, when that
\* distance is <= maxDistance; the range order is unspecified, so it holds any of them.
FuzzyBest(r, cleaned) ==
    LET cand == FuzzyCandidates(r, cleaned)
        dist == [key \in cand |-> levenshteinDistance(cleaned, key)]
        near == {key \in cand : dist[key] <= maxDistance}
    IN  {key \in near : \A other \in near : dist[key] <= dist[other]}

\* GetGroup with the partial match tried before the direct match.
GetGroupResultsPartialFirst(r, category) ==
    LET cleaned == ToLower(TrimSpace(category)) IN
    IF cleaned = "" THEN {""}
    ELSE LET partial == PartialMatches(r, cleaned) IN
         IF partial # {} THEN {r[key] : key \in partial}
         ELSE IF cleaned \in DOMAIN r THEN {r[cleaned]}
         ELSE LET best == FuzzyBest(r, cleaned) IN
              IF best # {} THEN {r[key] : key \in best}
              ELSE {""}

\* GetGroup without the empty check.
GetGroupResultsNoEmptyCheck(r, category) ==
    LET cleaned == ToLower(TrimSpace(category)) IN
    IF cleaned \in DOMAIN r THEN {r[cleaned]}
    ELSE LET partial == PartialMatches(r, cleaned) IN
         IF partial # {} THEN {r[key] : key \in partial}
         ELSE LET best == FuzzyBest(r, cleaned) IN
              IF best # {} THEN {r[key] : key \in best}
              ELSE {""}

\* The groups GetGroup can return on rule map r, one per order of the two map ranges.
GetGroupResults(r, category) ==
    LET cleaned == ToLower(TrimSpace(category)) IN
    IF cleaned = "" THEN {""}
    ELSE IF cleaned \in DOMAIN r THEN {r[cleaned]}
    ELSE LET partial == PartialMatches(r, cleaned) IN
         IF partial # {} THEN {r[key] : key \in partial}
         ELSE LET best == FuzzyBest(r, cleaned) IN
              IF best # {} THEN {r[key] : key \in best}
              ELSE {""}

NoGroups == [c \in {} |-> <<>>]

GetGroup(category) ==
    /\ \E group \in GetGroupResults(rules, category) : gRet' = group
    /\ gOp' = "GetGroup"
    /\ gArg' = category
    /\ gGroup' = ""
    /\ gAll' = NoGroups
    /\ UNCHANGED <<rules, nAdds>>
    /\ UNCHANGED <<distanceVars, normalizerVars, concurrentVars>>

\* AddRule storing the term as given, not lowercased.
AddRuleAsGiven(term, group) ==
    /\ nAdds < MaxAdds
    /\ rules' = [k \in DOMAIN rules \cup {term} |-> IF k = term THEN group ELSE rules[k]]
    /\ gOp' = "AddRule"
    /\ gArg' = term
    /\ gGroup' = group
    /\ gRet' = ""
    /\ gAll' = NoGroups
    /\ nAdds' = nAdds + 1
    /\ UNCHANGED <<distanceVars, normalizerVars, concurrentVars>>

AddRule(term, group) ==
    /\ nAdds < MaxAdds
    /\ rules' = [k \in DOMAIN rules \cup {ToLower(term)} |->
                    IF k = ToLower(term) THEN group ELSE rules[k]]
    /\ gOp' = "AddRule"
    /\ gArg' = term
    /\ gGroup' = group
    /\ gRet' = ""
    /\ gAll' = NoGroups
    /\ nAdds' = nAdds + 1
    /\ UNCHANGED <<distanceVars, normalizerVars, concurrentVars>>

GetAllGroups ==
    /\ gAll' = [category \in DOMAIN categoryDefinitions |-> categoryDefinitions[category]]
    /\ gOp' = "GetAllGroups"
    /\ gArg' = ""
    /\ gGroup' = ""
    /\ gRet' = ""
    /\ UNCHANGED <<rules, nAdds>>
    /\ UNCHANGED <<distanceVars, normalizerVars, concurrentVars>>

NewCategoryGrouper ==
    /\ rules \in initializeRules
    /\ gOp = "NewCategoryGrouper"
    /\ gArg = ""
    /\ gGroup = ""
    /\ gRet = ""
    /\ gAll = NoGroups
    /\ nAdds = 0

----------------------------------------------------------------------------
(* Inputs of the Grouper's operations. *)

AddTerms == {"", " ", "DOCTOR", "Vet "}
AddGroups == {"veterinarian", ""}

Words == {"manager", "hr"}

\* The phrases of 1..n words, single spaces between them.
RECURSIVE Phrases(_)
Phrases(n) ==
    IF n = 1 THEN Words
    ELSE Phrases(n - 1) \cup {p \o " " \o w : p \in Phrases(n - 1), w \in Words}

ProbeInputs ==
    Phrases(MaxWords) \cup
    {"", "  ", " Dr ", "DOCTOR", "docter", "docters", "driter", "cheff", "nurs", "vet",
     "senior doctor", "front-end developer", "xyzzyqwerty123"}

\* Every keyword of the table is classified on the Grouper as constructed; the probe
\* inputs are classified on every rule map.
GetGroupInputs == (IF nAdds = 0 THEN BaseKeys ELSE {}) \cup ProbeInputs

\* The caller takes the result of the call that ended; nothing of the Grouper changes.
Return ==
    /\ gOp # ""
    /\ gOp' = ""
    /\ gArg' = ""
    /\ gGroup' = ""
    /\ gRet' = ""
    /\ gAll' = NoGroups
    /\ UNCHANGED <<rules, nAdds>>
    /\ UNCHANGED <<distanceVars, normalizerVars, concurrentVars>>

\* Calls follow one another; a caller may repeat the GetGroup call that just ended.
GrouperNext ==
    \/ gOp = "" /\ \E term \in AddTerms, group \in AddGroups : AddRule(term, group)
    \/ \E category \in GetGroupInputs :
           /\ gOp = "" \/ (gOp = "GetGroup" /\ gArg = category)
           /\ GetGroup(category)
    \/ gOp = "" /\ GetAllGroups
    \/ Return


----------------------------------------------------------------------------
(* levenshteinDistance applied to drawn arguments. *)

Alphabet == {"a", "b"}

\* The strings of length n over the alphabet.
RECURSIVE StringsOfLen(_)
StringsOfLen(n) ==
    IF n = 0 THEN {""}
    ELSE {s \o c : s \in StringsOfLen(n - 1), c \in Alphabet}

ShortStrings == UNION {StringsOfLen(n) : n \in 0..MaxLen}

WordPairs ==
    {<<"kitten", "sitting">>, <<"sitting", "kitten">>, <<"kitten", "kitten">>,
     <<"", "sitting">>, <<"doctor", "docter">>, <<"flaw", "lawn">>}

DistanceInputs == (ShortStrings \X ShortStrings) \cup WordPairs

\* The arguments are chosen; the function has not run.
DistanceDraw ==
    /\ dOp = "input"
    /\ \E pair \in DistanceInputs : dS1 = pair[1] /\ dS2 = pair[2]
    /\ dRet = 0

\* No call of the function is under way.
DistanceIdle ==
    /\ dOp = ""
    /\ dS1 = ""
    /\ dS2 = ""
    /\ dRet = 0

Distance ==
    /\ dOp = "input"
    /\ dRet' = levenshteinDistance(dS1, dS2)
    /\ dOp' = "levenshteinDistance"
    /\ UNCHANGED <<dS1, dS2>>
    /\ UNCHANGED <<grouperVars, normalizerVars, concurrentVars>>

DistanceNext ==
    \/ Distance

----------------------------------------------------------------------------
(* levenshteinDistance applied to strings with characters of several      *)
(* bytes.  A Go string is the sequence of the bytes of its UTF-8 encoding: *)
(* len(s) counts them and s[i] is one of them.  A text is a sequence of    *)
(* code points.                                                            *)

\* a (U+0061), e with acute (U+00E9), the euro sign (U+20AC)
CodePoints == {97, 233, 8364}

\* The UTF-8 bytes of one code point below U+10000.
Utf8Char(cp) ==
    IF cp < 128 THEN <<cp>>
    ELSE IF cp < 2048 THEN <<192 + (cp \div 64), 128 + (cp % 64)>>
    ELSE <<224 + (cp \div 4096), 128 + ((cp \div 64) % 64), 128 + (cp % 64)>>

RECURSIVE Utf8(_)
Utf8(text) ==
    IF Len(text) = 0 THEN <<>>
    ELSE Utf8Char(Head(text)) \o Utf8(Tail(text))

\* The texts of n code points.
RECURSIVE TextsOfLen(_)
TextsOfLen(n) ==
    IF n = 0 THEN {<<>>}
    ELSE {Append(text, cp) : text \in TextsOfLen(n - 1), cp \in CodePoints}

Texts == UNION {TextsOfLen(n) : n \in 0..MaxLen}

\* The arguments are the strings of two texts; the function has not run.
BytesDraw ==
    /\ dOp = "input"
    /\ \E text1, text2 \in Texts : dS1 = Utf8(text1) /\ dS2 = Utf8(text2)
    /\ dRet = 0

----------------------------------------------------------------------------
(* float64.  A finite non-negative float64 value is the set of the bit     *)
(* positions of its binary expansion: k in the set stands for 2^(-k), so   *)
(* {0} is 1.0, {1} is 0.5 and {1, 2} is 0.75.  A float64 has at most       *)
(* mantissaBits significant bits; every operation computes the exact       *)
(* result and rounds it to nearest, ties to even, as the hardware does.    *)

mantissaBits == 53

F64Zero == {}

F64One == {0}

\* The set itself, with its elements computed now: an operation works on the
\* digits of its operands, not on the expressions that produced them.
Digits(bits) == IF Cardinality(bits) >= 0 THEN bits ELSE {}

MinBit(bits) == CHOOSE k \in bits : \A j \in bits : k <= j

MaxBit(bits) == CHOOSE k \in bits : \A j \in bits : k >= j

\* bits + 2^(-k), exact: the carry runs up to the nearest position at or before
\* k that has no bit.
AddBit(bits, k) ==
    IF k \notin bits THEN bits \cup {k}
    ELSE LET top == MaxBit({j \in (MinBit(bits) - 1)..k : j \notin bits})
         IN  Digits({i \in bits : i < top \/ i > k} \cup {top})

\* a + b, exact: position k of the sum is a_k + b_k + the carry into k, and a
\* carry comes into k from the nearest position behind it where both have a bit
\* when one of them has a bit at every position between.
AddExact(a, b) ==
    IF a = {} THEN b
    ELSE IF b = {} THEN a
    ELSE LET either == a \cup b
             both == a \cap b
             carry(k) == \E j \in both : j > k /\ \A i \in (k + 1)..(j - 1) : i \in either
             ones(k) == (IF k \in a THEN 1 ELSE 0) + (IF k \in b THEN 1 ELSE 0)
                        + (IF carry(k) THEN 1 ELSE 0)
         IN  Digits({k \in {j - 1 : j \in either} \cup either : ones(k) % 2 = 1})

\* a - b, exact, for a >= b: a borrow is taken from k by the nearest position
\* behind it where only b has a bit when no position between has a bit of a
\* alone.
SubExact(a, b) ==
    IF b = {} THEN a
    ELSE LET borrow(k) == \E j \in b \ a :
                              j > k /\ \A i \in (k + 1)..(j - 1) : i \notin a \ b
             ones(k) == (IF k \in a THEN 1 ELSE 0) + (IF k \in b THEN 1 ELSE 0)
                        + (IF borrow(k) THEN 1 ELSE 0)
         IN  Digits({k \in MinBit(a \cup b)..MaxBit(a \cup b) : ones(k) % 2 = 1})

\* The float64 nearest to the exact value, ties to even.
RoundF64(bits) ==
    IF bits = {} THEN {}
    ELSE LET last == MinBit(bits) + mantissaBits - 1
             kept == Digits({k \in bits : k <= last})
             up == /\ (last + 1) \in bits
                   /\ (last \in bits \/ \E k \in bits : k > last + 1)
         IN  IF up THEN AddBit(kept, last) ELSE kept

\* The binary digits of n as a bit set, n >= 0.
RECURSIVE IntBits(_, _)
IntBits(n, k) ==
    IF n = 0 THEN {}
    ELSE (IF n % 2 = 1 THEN {k} ELSE {}) \cup IntBits(n \div 2, k - 1)

\* The digits of r/d after position k - 1 (0 <= r < d): digits are produced up to
\* one past the last mantissa bit, and a non-zero remainder behind them is kept
\* as one more bit.
RECURSIVE FractionBits(_, _, _, _)
FractionBits(r, d, k, bits) ==
    IF r = 0 THEN bits
    ELSE IF bits # {} /\ k > MinBit(bits) + mantissaBits THEN bits \cup {k}
    ELSE LET r2 == 2 * r
             bit == r2 >= d
         IN  FractionBits(IF bit THEN r2 - d ELSE r2, d, k + 1,
                          IF bit THEN bits \cup {k} ELSE bits)

\* float64(n) / float64(d) for integers n >= 0, d > 0.
F64Div(n, d) == RoundF64(FractionBits(n % d, d, 1, IntBits(n \div d, 0)))

F64Add(a, b) == RoundF64(AddExact(a, b))

\* a - b for a >= b.
F64Sub(a, b) == RoundF64(SubExact(a, b))

\* a * b, exact: the sum of the copies of a shifted by the bits of b.
RECURSIVE MulExact(_, _, _)
MulExact(a, b, sum) ==
    IF b = {} THEN sum
    ELSE LET j == MinBit(b)
             next == AddExact(sum, Digits({k + j : k \in a}))
         IN  IF next = {} THEN {} ELSE MulExact(a, Digits(b \ {j}), next)

F64Mul(a, b) == RoundF64(MulExact(a, b, {}))

\* a >= b
F64Geq(a, b) ==
    \/ a = b
    \/ MinBit((a \ b) \cup (b \ a)) \in a

\* a > b
F64Greater(a, b) == a # b /\ F64Geq(a, b)

----------------------------------------------------------------------------
(* TermNormalizer: the trie.  A node is named by the path of characters    *)
(* leading to it from the root (the root is ""); node p has child ch when  *)
(* p \o ch is a node.                                                      *)

NewNode == [isEnd |-> FALSE, canonicalTerm |-> "", frequency |-> 0]

Prefix(term, k) == SubSeq(term, 1, k)

absTwo(x) == IF x < 0 THEN -x ELSE x

maxTwo(a, b) == IF a > b THEN a ELSE b

\* m[k] = v
Put(m, k, v) == [x \in DOMAIN m \cup {k} |-> IF x = k THEN v ELSE m[x]]

\* The insert with the counter set to 1, not incremented.
insertIntoTrieOnce(rt, term, canonical) ==
    LET paths == {Prefix(term, k) : k \in 0..Len(term)}
        node == IF term \in DOMAIN rt THEN rt[term] ELSE NewNode
    IN  [p \in DOMAIN rt \cup paths |->
            IF p = term
            THEN [isEnd |-> TRUE,
                  canonicalTerm |-> canonical,
                  frequency |-> 1]
            ELSE IF p \in DOMAIN rt THEN rt[p] ELSE NewNode]

insertIntoTrie(rt, term, canonical) ==
    LET paths == {Prefix(term, k) : k \in 0..Len(term)}
        node == IF term \in DOMAIN rt THEN rt[term] ELSE NewNode
    IN  [p \in DOMAIN rt \cup paths |->
            IF p = term
            THEN [isEnd |-> TRUE,
                  canonicalTerm |-> canonical,
                  frequency |-> node.frequency + 1]
            ELSE IF p \in DOMAIN rt THEN rt[p] ELSE NewNode]

\* The loop of findLongestPrefixMatch from the k-th character on.
RECURSIVE WalkPrefix(_, _, _, _)
WalkPrefix(rt, term, k, lastValidMatch) ==
    IF k > Len(term) \/ Prefix(term, k) \notin DOMAIN rt THEN lastValidMatch
    ELSE LET node == rt[Prefix(term, k)] IN
         WalkPrefix(rt, term, k + 1,
                    IF node.isEnd THEN node.canonicalTerm ELSE lastValidMatch)

findLongestPrefixMatch(rt, term) == WalkPrefix(rt, term, 1, "")

getFrequency(rt, term) ==
    IF \E k \in 1..Len(term) : Prefix(term, k) \notin DOMAIN rt THEN 0
    ELSE IF rt[term].isEnd THEN rt[term].frequency
    ELSE 0

----------------------------------------------------------------------------
(* TermNormalizer: similarity, in float64 as the code computes it.        *)

longestCommonPrefix(s1, s2) ==
    LET minLen == IF Len(s2) < Len(s1) THEN Len(s2) ELSE Len(s1)
        differ == {i \in 1..minLen : Char(s1, i) # Char(s2, i)}
    IN  IF differ = {} THEN SubSeq(s1, 1, minLen)
        ELSE SubSeq(s1, 1, (CHOOSE i \in differ : \A j \in differ : i <= j) - 1)

\* The share of the shorter term that the common prefix must cover.
prefixShare == F64Div(4, 5)

\* The check without the exact match required of a short term.
isSimilarByPrefixAnyLength(term, canonical) ==
    LET commonPrefix == longestCommonPrefix(term, canonical)
        minLen == IF Len(canonical) < Len(term) THEN Len(canonical) ELSE Len(term)
        threshold == F64Mul(F64Div(minLen, 1), prefixShare)
    IN  F64Geq(F64Div(Len(commonPrefix), 1), threshold)

isSimilarByPrefix(term, canonical) ==
    IF Len(term) < 5 THEN term = canonical
    ELSE LET commonPrefix == longestCommonPrefix(term, canonical)
             minLen == IF Len(canonical) < Len(term) THEN Len(canonical) ELSE Len(term)
             threshold == F64Mul(F64Div(minLen, 1), prefixShare)
         IN  F64Geq(F64Div(Len(commonPrefix), 1), threshold)

\* Row i of the DP table, filled from column Len(row) on.
RECURSIVE LcsRow(_, _, _, _, _)
LcsRow(s1, s2, dp, i, row) ==
    LET j == Len(row) IN
    IF j > Len(s2) THEN row
    ELSE LET cell == IF Char(s1, i) = Char(s2, j)
                     THEN dp[i][j] + 1
                     ELSE maxTwo(dp[i][j + 1], row[j])
         IN  LcsRow(s1, s2, dp, i, Append(row, cell))

\* The DP table, filled from row Len(dp) on.
RECURSIVE LcsTable(_, _, _)
LcsTable(s1, s2, dp) ==
    LET i == Len(dp) IN
    IF i > Len(s1) THEN dp
    ELSE LcsTable(s1, s2, Append(dp, LcsRow(s1, s2, dp, i, <<0>>)))

longestCommonSubsequence(s1, s2) ==
    IF Len(s1) = 0 \/ Len(s2) = 0 THEN 0
    ELSE LcsTable(s1, s2, << [j \in 1..(Len(s2) + 1) |-> 0] >>)[Len(s1) + 1][Len(s2) + 1]

\* strings.Fields: the maximal runs of non-space characters.
RECURSIVE Fields(_)
Fields(s) ==
    IF Len(s) = 0 THEN <<>>
    ELSE IF IsSpace(Char(s, 1)) THEN Fields(SubSeq(s, 2, Len(s)))
    ELSE LET spaces == {i \in 1..Len(s) : IsSpace(Char(s, i))}
             end == IF spaces = {} THEN Len(s) + 1
                    ELSE CHOOSE i \in spaces : \A j \in spaces : i <= j
         IN  <<SubSeq(s, 1, end - 1)>> \o Fields(SubSeq(s, end, Len(s)))

calculateTokenOverlap(tokens1, tokens2) ==
    IF Len(tokens1) = 0 /\ Len(tokens2) = 0 THEN F64One
    ELSE IF Len(tokens1) = 0 \/ Len(tokens2) = 0 THEN F64Zero
    ELSE LET set1 == {tokens1[i] : i \in 1..Len(tokens1)}
             overlap == Cardinality({i \in 1..Len(tokens2) : tokens2[i] \in set1})
             maxSize == maxTwo(Len(tokens1), Len(tokens2))
         IN  F64Div(overlap, maxSize)

\* The float64 constants of calculateSimilarity.
lcsWeight == F64Div(1, 4)

levWeight == F64Div(1, 2)

tokenWeight == F64Div(1, 4)

bonus == F64Div(1, 10)

reducedPenalty == F64Div(4, 5)

\* The body of calculateSimilarity.
similarityScore(s1, s2) ==
    LET lenDiff == absTwo(Len(s1) - Len(s2))
        maxLen == maxTwo(Len(s1), Len(s2))
    IN  IF maxLen = 0 THEN F64Zero
        ELSE LET lengthPenalty ==
                     IF F64Greater(F64Div(lenDiff, maxLen), F64Div(1, 5))
                     THEN reducedPenalty ELSE F64One
                 lcs == longestCommonSubsequence(s1, s2)
                 lcsRatio == F64Div(lcs, maxLen)
                 distance == levenshteinDistance(s1, s2)
                 levRatio == F64Sub(F64One, F64Div(distance, maxLen))
                 tokenOverlap == calculateTokenOverlap(Fields(s1), Fields(s2))
                 prefix == longestCommonPrefix(s1, s2)
                 prefixBonus ==
                     IF Len(prefix) >= 5
                        /\ F64Greater(F64Div(Len(prefix), maxLen), F64Div(3, 5))
                     THEN bonus ELSE F64Zero
                 similarity ==
                     F64Add(F64Add(F64Add(F64Mul(lcsRatio, lcsWeight),
                                          F64Mul(levRatio, levWeight)),
                                   F64Mul(tokenOverlap, tokenWeight)),
                            prefixBonus)
             IN  F64Mul(similarity, lengthPenalty)

\* The cleaned terms the normalizer is given.
Vocabulary ==
    {"data engineer", "data enginer", "data engineers", "nur", "nurs",
     "ophthalmologist", "ophthalmologis", "ophthalmologisd"}

\* The score of every pair of the vocabulary.
SimilarityTable ==
    [s1 \in Vocabulary |-> [s2 \in Vocabulary |-> similarityScore(s1, s2)]]

\* The score is a function of the two strings alone: for terms of the vocabulary
\* it is evaluated once.
calculateSimilarity(s1, s2) ==
    IF s1 \in Vocabulary /\ s2 \in Vocabulary THEN SimilarityTable[s1][s2]
    ELSE similarityScore(s1, s2)

\* The float64 constants 0.80 and 0.85.
Thresholds == [n \in {80, 85} |-> F64Div(n, 100)]

\* score >= n/d, the threshold being the float64 constant nearest to n/d
AtLeast(score, n, d) ==
    F64Geq(score, IF d = 100 /\ n \in DOMAIN Thresholds THEN Thresholds[n] ELSE F64Div(n, d))

\* a > b
Greater(a, b) == F64Greater(a, b)

----------------------------------------------------------------------------
(* TermNormalizer: the operations.  tn is the record of the normalizer's  *)
(* fields.  The maps are ranged over in an order the Go runtime chooses,   *)
(* so an operation has a set of possible results.                          *)

\* The canonical terms findBestFuzzyMatch can end with: a key mapped to itself with
\* the highest score among those scoring at least 0.80, whichever of them the range
\* reaches first; "" when there is none.
findBestFuzzyMatch(ct, term) ==
    LET canonicals == {key \in DOMAIN ct : key = ct[key]}
        score == [canonical \in canonicals |-> calculateSimilarity(term, canonical)]
        accepted == {canonical \in canonicals :
                        /\ Greater(score[canonical], F64Zero)
                        /\ AtLeast(score[canonical], 80, 100)}
        best == {canonical \in accepted :
                    \A other \in accepted : ~Greater(score[other], score[canonical])}
    IN  IF best = {} THEN {""} ELSE best

registerCanonicalTerm(tn, term) ==
    [tn EXCEPT !.canonicalTerms = Put(@, term, term),
               !.termVariations = Put(@, term, <<term>>),
               !.root = insertIntoTrie(@, term, term)]

\* The fuzzy match with the term mapped to itself, not to the match.
ResolveByFuzzyUnmapped(tn, cleaned) ==
    {IF bestMatch # ""
     THEN [ret |-> bestMatch,
           tn |-> [tn EXCEPT
               !.fuzzyMatchCache = Put(@, cleaned, bestMatch),
               !.canonicalTerms = Put(@, cleaned, cleaned),
               !.root = insertIntoTrie(@, cleaned, bestMatch),
               !.termVariations =
                   Put(@, bestMatch,
                       Append(IF bestMatch \in DOMAIN @ THEN @[bestMatch]
                              ELSE <<>>, cleaned))]]
     ELSE [ret |-> cleaned, tn |-> registerCanonicalTerm(tn, cleaned)]
     : bestMatch \in findBestFuzzyMatch(tn.canonicalTerms, cleaned)}

\* Lines 87-100: the fuzzy match against the canonical terms, and the registration
\* of cleaned as a new canonical term when there is none.
ResolveByFuzzy(tn, cleaned) ==
    {IF bestMatch # ""
     THEN [ret |-> bestMatch,
           tn |-> [tn EXCEPT
               !.fuzzyMatchCache = Put(@, cleaned, bestMatch),
               !.canonicalTerms = Put(@, cleaned, bestMatch),
               !.root = insertIntoTrie(@, cleaned, bestMatch),
               !.termVariations =
                   Put(@, bestMatch,
                       Append(IF bestMatch \in DOMAIN @ THEN @[bestMatch]
                              ELSE <<>>, cleaned))]]
     ELSE [ret |-> cleaned, tn |-> registerCanonicalTerm(tn, cleaned)]
     : bestMatch \in findBestFuzzyMatch(tn.canonicalTerms, cleaned)}

\* Lines 75-100: the prefix match, then the fuzzy match.
ResolveNewTerm(tn, cleaned) ==
    LET prefixMatch == findLongestPrefixMatch(tn.root, cleaned) IN
    IF prefixMatch # "" /\ isSimilarByPrefix(cleaned, prefixMatch) THEN
        {[ret |-> prefixMatch,
          tn |-> [tn EXCEPT !.fuzzyMatchCache = Put(@, cleaned, prefixMatch),
                            !.canonicalTerms = Put(@, cleaned, prefixMatch),
                            !.root = insertIntoTrie(@, cleaned, prefixMatch)]]}
    ELSE ResolveByFuzzy(tn, cleaned)

\* NormalizeTerm from its first lock on, cleaned being the cleaned input.
NormalizeCleaned(tn, cleaned) ==
    IF cleaned \in DOMAIN tn.fuzzyMatchCache THEN
        LET canonical == tn.fuzzyMatchCache[cleaned] IN
        {[ret |-> canonical,
          tn |-> [tn EXCEPT !.root = insertIntoTrie(@, cleaned, canonical)]]}
    ELSE IF cleaned \in DOMAIN tn.canonicalTerms THEN
        LET canonical == tn.canonicalTerms[cleaned] IN
        {[ret |-> canonical,
          tn |-> [tn EXCEPT !.root = insertIntoTrie(@, cleaned, canonical)]]}
    ELSE ResolveNewTerm(tn, cleaned)

\* NormalizeTerm without the return on an empty cleaned input.
NormalizeTermOutcomesNoEmptyCheck(tn, term) ==
    NormalizeCleaned(tn, ToLower(TrimSpace(term)))

\* The possible outcomes of NormalizeTerm(term) run alone from tn: the string
\* returned and the normalizer's fields at the return.
NormalizeTermOutcomes(tn, term) ==
    LET cleaned == ToLower(TrimSpace(term)) IN
    IF cleaned = "" THEN {[ret |-> term, tn |-> tn]}
    ELSE NormalizeCleaned(tn, cleaned)

\* The slices GetCanonicalTerms can return: every key of canonicalTerms once, a
\* key of higher frequency before one of lower; keys of equal frequency stand in
\* the order the map range and the unstable sort leave them in.
GetCanonicalTermsResults(tn) ==
    LET keys == DOMAIN tn.canonicalTerms
        n == Cardinality(keys)
    IN  {terms \in [1..n -> keys] :
            /\ \A i, j \in 1..n : i < j => terms[i] # terms[j]
            /\ \A i \in 1..(n - 1) :
                   getFrequency(tn.root, terms[i]) >= getFrequency(tn.root, terms[i + 1])}

\* The loops with the merged-away term assigned to itself.
RECURSIVE MergeScanSelfAssign(_, _, _, _, _, _)
MergeScanSelfAssign(rt, canonicals, i, j, merged, ct) ==
    IF i > Len(canonicals) THEN ct
    ELSE IF j > Len(canonicals) THEN MergeScanSelfAssign(rt, canonicals, i + 1, i + 2, merged, ct)
    ELSE LET term1 == canonicals[i]
             term2 == canonicals[j]
         IN  IF term1 \in DOMAIN merged \/ term2 \in DOMAIN merged
             THEN MergeScanSelfAssign(rt, canonicals, i, j + 1, merged, ct)
             ELSE IF AtLeast(calculateSimilarity(term1, term2), 85, 100)
             THEN LET freq1 == getFrequency(rt, term1)
                      freq2 == getFrequency(rt, term2)
                      first == freq1 > freq2 \/ (freq1 = freq2 /\ Len(term1) >= Len(term2))
                      keep == IF first THEN term1 ELSE term2
                      merge == IF first THEN term2 ELSE term1
                  IN  MergeScanSelfAssign(rt, canonicals, i, j + 1,
                                Put(merged, merge, keep), Put(ct, merge, merge))
             ELSE MergeScanSelfAssign(rt, canonicals, i, j + 1, merged, ct)

\* The loops with the key of the merged-away term deleted.
RECURSIVE MergeScanDeleting(_, _, _, _, _, _)
MergeScanDeleting(rt, canonicals, i, j, merged, ct) ==
    IF i > Len(canonicals) THEN ct
    ELSE IF j > Len(canonicals) THEN MergeScanDeleting(rt, canonicals, i + 1, i + 2, merged, ct)
    ELSE LET term1 == canonicals[i]
             term2 == canonicals[j]
         IN  IF term1 \in DOMAIN merged \/ term2 \in DOMAIN merged
             THEN MergeScanDeleting(rt, canonicals, i, j + 1, merged, ct)
             ELSE IF AtLeast(calculateSimilarity(term1, term2), 85, 100)
             THEN LET freq1 == getFrequency(rt, term1)
                      freq2 == getFrequency(rt, term2)
                      first == freq1 > freq2 \/ (freq1 = freq2 /\ Len(term1) >= Len(term2))
                      keep == IF first THEN term1 ELSE term2
                      merge == IF first THEN term2 ELSE term1
                  IN  MergeScanDeleting(rt, canonicals, i, j + 1,
                                Put(merged, merge, keep), [k \in DOMAIN ct \ {merge} |-> ct[k]])
             ELSE MergeScanDeleting(rt, canonicals, i, j + 1, merged, ct)

\* The loops with the two sides of a merge exchanged.
RECURSIVE MergeScanKeepWeaker(_, _, _, _, _, _)
MergeScanKeepWeaker(rt, canonicals, i, j, merged, ct) ==
    IF i > Len(canonicals) THEN ct
    ELSE IF j > Len(canonicals) THEN MergeScanKeepWeaker(rt, canonicals, i + 1, i + 2, merged, ct)
    ELSE LET term1 == canonicals[i]
             term2 == canonicals[j]
         IN  IF term1 \in DOMAIN merged \/ term2 \in DOMAIN merged
             THEN MergeScanKeepWeaker(rt, canonicals, i, j + 1, merged, ct)
             ELSE IF AtLeast(calculateSimilarity(term1, term2), 85, 100)
             THEN LET freq1 == getFrequency(rt, term1)
                      freq2 == getFrequency(rt, term2)
                      first == freq1 > freq2 \/ (freq1 = freq2 /\ Len(term1) >= Len(term2))
                      keep == IF first THEN term2 ELSE term1
                      merge == IF first THEN term1 ELSE term2
                  IN  MergeScanKeepWeaker(rt, canonicals, i, j + 1,
                                Put(merged, merge, keep), Put(ct, merge, keep))
             ELSE MergeScanKeepWeaker(rt, canonicals, i, j + 1, merged, ct)

\* The loops of MergeSimilarTerms from the pair (i, j) on (indices from 1); the
\* value is canonicalTerms at the end.
RECURSIVE MergeScan(_, _, _, _, _, _)
MergeScan(rt, canonicals, i, j, merged, ct) ==
    IF i > Len(canonicals) THEN ct
    ELSE IF j > Len(canonicals) THEN MergeScan(rt, canonicals, i + 1, i + 2, merged, ct)
    ELSE LET term1 == canonicals[i]
             term2 == canonicals[j]
         IN  IF term1 \in DOMAIN merged \/ term2 \in DOMAIN merged
             THEN MergeScan(rt, canonicals, i, j + 1, merged, ct)
             ELSE IF AtLeast(calculateSimilarity(term1, term2), 85, 100)
             THEN LET freq1 == getFrequency(rt, term1)
                      freq2 == getFrequency(rt, term2)
                      first == freq1 > freq2 \/ (freq1 = freq2 /\ Len(term1) >= Len(term2))
                      keep == IF first THEN term1 ELSE term2
                      merge == IF first THEN term2 ELSE term1
                  IN  MergeScan(rt, canonicals, i, j + 1,
                                Put(merged, merge, keep), Put(ct, merge, keep))
             ELSE MergeScan(rt, canonicals, i, j + 1, merged, ct)

NoTerms == [k \in {} |-> ""]

\* The normalizer's fields in the current state.
TN ==
    [root |-> root,
     canonicalTerms |-> canonicalTerms,
     termVariations |-> termVariations,
     fuzzyMatchCache |-> fuzzyMatchCache]

NewTermNormalizer ==
    /\ root = [p \in {""} |-> NewNode]
    /\ canonicalTerms = NoTerms
    /\ termVariations = NoTerms
    /\ fuzzyMatchCache = NoTerms
    /\ nOp = "NewTermNormalizer"
    /\ nArg = ""
    /\ nRet = ""
    /\ nList = <<>>
    /\ nCalls = 0

NormalizeTerm(term) ==
    /\ nCalls < MaxCalls
    /\ \E out \in NormalizeTermOutcomes(TN, term) :
           /\ root' = out.tn.root
           /\ canonicalTerms' = out.tn.canonicalTerms
           /\ termVariations' = out.tn.termVariations
           /\ fuzzyMatchCache' = out.tn.fuzzyMatchCache
           /\ nRet' = out.ret
    /\ nOp' = "NormalizeTerm"
    /\ nArg' = term
    /\ nList' = <<>>
    /\ nCalls' = nCalls + 1
    /\ UNCHANGED <<grouperVars, distanceVars, concurrentVars>>

GetCanonicalTerms ==
    /\ \E terms \in GetCanonicalTermsResults(TN) : nList' = terms
    /\ nOp' = "GetCanonicalTerms"
    /\ nArg' = ""
    /\ nRet' = ""
    /\ UNCHANGED <<tnVars, nCalls>>
    /\ UNCHANGED <<grouperVars, distanceVars, concurrentVars>>

MergeSimilarTerms ==
    /\ \E canonicals \in GetCanonicalTermsResults(TN) :
           canonicalTerms' = MergeScan(root, canonicals, 1, 2, NoTerms, canonicalTerms)
    /\ nOp' = "MergeSimilarTerms"
    /\ nArg' = ""
    /\ nRet' = ""
    /\ nList' = <<>>
    /\ UNCHANGED <<root, termVariations, fuzzyMatchCache, nCalls>>
    /\ UNCHANGED <<grouperVars, distanceVars, concurrentVars>>

\* The caller takes the result of the call that ended; nothing of the normalizer
\* changes.
NormalizerReturn ==
    /\ nOp # ""
    /\ nOp' = ""
    /\ nArg' = ""
    /\ nRet' = ""
    /\ nList' = <<>>
    /\ UNCHANGED <<tnVars, nCalls>>
    /\ UNCHANGED <<grouperVars, distanceVars, concurrentVars>>

----------------------------------------------------------------------------
(* Inputs of the normalizer's operations. *)

NormalizeInputs ==
    {"", "  ", "data engineer", " Data Engineer ", "data enginer", "data engineers",
     "nur", "nurs"}

\* Calls follow one another.
NormalizerNext ==
    \/ nOp = "" /\ \E term \in NormalizeInputs : NormalizeTerm(term)
    \/ nOp = "" /\ GetCanonicalTerms
    \/ nOp = "" /\ MergeSimilarTerms
    \/ NormalizerReturn

\* Terms one edit apart whose similarity is 0.80 in exact arithmetic.
NearTieInputs ==
    {"ophthalmologist", " Ophthalmologist ", "ophthalmologis", "ophthalmologisd"}

\* Calls follow one another, with terms at the fuzzy threshold.
NearTieNext ==
    \/ nOp = "" /\ \E term \in NearTieInputs : NormalizeTerm(term)
    \/ nOp = "" /\ GetCanonicalTerms
    \/ nOp = "" /\ MergeSimilarTerms
    \/ NormalizerReturn

\* Calls follow one another, MergeSimilarTerms not among them.
NoMergeNext ==
    \/ nOp = "" /\ \E term \in NormalizeInputs : NormalizeTerm(term)
    \/ nOp = "" /\ GetCanonicalTerms
    \/ NormalizerReturn

----------------------------------------------------------------------------
(* calculateTokenOverlap applied to the fields of drawn strings. *)

Tokens == {"a", "b"}

\* The strings of n tokens, single spaces between them.
RECURSIVE TokenStrings(_)
TokenStrings(n) ==
    IF n = 0 THEN {""}
    ELSE IF n = 1 THEN Tokens
    ELSE {s \o " " \o token : s \in TokenStrings(n - 1), token \in Tokens}

OverlapInputs ==
    LET strings == {"  "} \cup UNION {TokenStrings(n) : n \in 0..MaxWords}
    IN  strings \X strings

\* The arguments are chosen; the function has not run.
OverlapDraw ==
    /\ dOp = "input"
    /\ \E pair \in OverlapInputs : dS1 = pair[1] /\ dS2 = pair[2]
    /\ dRet = F64Zero

TokenOverlap ==
    /\ dOp = "input"
    /\ dRet' = calculateTokenOverlap(Fields(dS1), Fields(dS2))
    /\ dOp' = "calculateTokenOverlap"
    /\ UNCHANGED <<dS1, dS2>>
    /\ UNCHANGED <<grouperVars, normalizerVars, concurrentVars>>

OverlapNext ==
    \/ TokenOverlap
----------------------------------------------------------------------------
(* TermNormalizer under concurrent callers.  Each goroutine runs           *)
(* NormalizeTerm step by step; a step is a lock operation or the code      *)
(* between two lock operations.  RLock is granted when no goroutine holds  *)
(* Lock, Lock when no goroutine holds either lock.                         *)

Threads == 1..MaxThreads

NoThread == 0

\* The cleaned input of goroutine t's call (line 38).
CleanedOf(t) == ToLower(TrimSpace(tTerm[t]))

\* The code under Lock going straight to the fuzzy match.
NormalizeLockedFuzzyOnly(tn, cleaned) == ResolveByFuzzy(tn, cleaned)

\* Lines 69-100, run holding Lock: the second look at the cache, then the prefix
\* and fuzzy matches.
NormalizeLocked(tn, cleaned) ==
    IF cleaned \in DOMAIN tn.fuzzyMatchCache THEN
        LET canonical == tn.fuzzyMatchCache[cleaned] IN
        {[ret |-> canonical,
          tn |-> [tn EXCEPT !.root = insertIntoTrie(@, cleaned, canonical)]]}
    ELSE ResolveNewTerm(tn, cleaned)

\* No goroutine is in a call, the lock is free.
NoGoroutines ==
    /\ mu = [writer |-> NoThread, readers |-> {}]
    /\ pc = [t \in Threads |-> "idle"]
    /\ tTerm = [t \in Threads |-> ""]
    /\ tCanonical = [t \in Threads |-> ""]
    /\ tRet = [t \in Threads |-> ""]
    /\ mPc = "idle"
    /\ mCanonicals = <<>>
    /\ mI = 0
    /\ mJ = 0
    /\ mMerged = NoTerms
    /\ nMerges = 0

\* Lines 36-41: the call, with the return of an input that is empty once cleaned.
Call(t, term) ==
    /\ pc[t] \in {"idle", "done"}
    /\ nCalls < MaxCalls
    /\ nCalls' = nCalls + 1
    /\ tTerm' = [tTerm EXCEPT ![t] = term]
    /\ tCanonical' = [tCanonical EXCEPT ![t] = ""]
    /\ IF ToLower(TrimSpace(term)) = ""
       THEN pc' = [pc EXCEPT ![t] = "done"] /\ tRet' = [tRet EXCEPT ![t] = term]
       ELSE pc' = [pc EXCEPT ![t] = "rlock"] /\ tRet' = [tRet EXCEPT ![t] = ""]
    /\ UNCHANGED <<mu, mergerVars>>
    /\ UNCHANGED <<tnVars, nOp, nArg, nRet, nList>>
    /\ UNCHANGED <<grouperVars, distanceVars>>

\* Line 44.
RLock(t) ==
    /\ pc[t] = "rlock"
    /\ mu.writer = NoThread
    /\ mu' = [mu EXCEPT !.readers = @ \cup {t}]
    /\ pc' = [pc EXCEPT ![t] = "lookup"]
    /\ UNCHANGED <<tTerm, tCanonical, tRet, mergerVars>>
    /\ UNCHANGED <<grouperVars, distanceVars, normalizerVars>>

\* Lines 45 and 55: the cache, then canonicalTerms.
Lookup(t) ==
    /\ pc[t] = "lookup"
    /\ LET cleaned == CleanedOf(t) IN
       IF cleaned \in DOMAIN fuzzyMatchCache
       THEN /\ tCanonical' = [tCanonical EXCEPT ![t] = fuzzyMatchCache[cleaned]]
            /\ pc' = [pc EXCEPT ![t] = "runlockHit"]
       ELSE IF cleaned \in DOMAIN canonicalTerms
       THEN /\ tCanonical' = [tCanonical EXCEPT ![t] = canonicalTerms[cleaned]]
            /\ pc' = [pc EXCEPT ![t] = "runlockHit"]
       ELSE /\ UNCHANGED tCanonical
            /\ pc' = [pc EXCEPT ![t] = "runlockMiss"]
    /\ UNCHANGED <<mu, tTerm, tRet, mergerVars>>
    /\ UNCHANGED <<grouperVars, distanceVars, normalizerVars>>

\* Lines 46, 56 and 63.
RUnlock(t) ==
    /\ pc[t] \in {"runlockHit", "runlockMiss"}
    /\ mu' = [mu EXCEPT !.readers = @ \ {t}]
    /\ pc' = [pc EXCEPT ![t] = IF pc[t] = "runlockHit" THEN "lockHit" ELSE "lockMiss"]
    /\ UNCHANGED <<tTerm, tCanonical, tRet, mergerVars>>
    /\ UNCHANGED <<grouperVars, distanceVars, normalizerVars>>

\* Lines 48, 58 and 66.
Lock(t) ==
    /\ pc[t] \in {"lockHit", "lockMiss"}
    /\ mu.writer = NoThread
    /\ mu.readers = {}
    /\ mu' = [mu EXCEPT !.writer = t]
    /\ pc' = [pc EXCEPT ![t] = IF pc[t] = "lockHit" THEN "insert" ELSE "slow"]
    /\ UNCHANGED <<tTerm, tCanonical, tRet, mergerVars>>
    /\ UNCHANGED <<grouperVars, distanceVars, normalizerVars>>

\* Lines 49 and 59: the frequency update of a term found under RLock.
InsertHit(t) ==
    /\ pc[t] = "insert"
    /\ root' = insertIntoTrie(root, CleanedOf(t), tCanonical[t])
    /\ tRet' = [tRet EXCEPT ![t] = tCanonical[t]]
    /\ pc' = [pc EXCEPT ![t] = "unlock"]
    /\ UNCHANGED <<canonicalTerms, termVariations, fuzzyMatchCache>>
    /\ UNCHANGED <<mu, tTerm, tCanonical, mergerVars>>
    /\ UNCHANGED <<nOp, nArg, nRet, nList, nCalls>>
    /\ UNCHANGED <<grouperVars, distanceVars>>

\* Lines 69-100.
SlowPath(t) ==
    /\ pc[t] = "slow"
    /\ \E out \in NormalizeLocked(TN, CleanedOf(t)) :
           /\ root' = out.tn.root
           /\ canonicalTerms' = out.tn.canonicalTerms
           /\ termVariations' = out.tn.termVariations
           /\ fuzzyMatchCache' = out.tn.fuzzyMatchCache
           /\ tRet' = [tRet EXCEPT ![t] = out.ret]
    /\ pc' = [pc EXCEPT ![t] = "unlock"]
    /\ UNCHANGED <<mu, tTerm, tCanonical, mergerVars>>
    /\ UNCHANGED <<nOp, nArg, nRet, nList, nCalls>>
    /\ UNCHANGED <<grouperVars, distanceVars>>

\* The call returning with Lock still held.
UnlockForgotten(t) ==
    /\ pc[t] = "unlock"
    /\ pc' = [pc EXCEPT ![t] = "done"]
    /\ UNCHANGED <<mu, tTerm, tCanonical, tRet, mergerVars>>
    /\ UNCHANGED <<grouperVars, distanceVars, normalizerVars>>

\* Lines 50, 60 and the deferred Unlock of line 67; the call returns.
Unlock(t) ==
    /\ pc[t] = "unlock"
    /\ mu' = [mu EXCEPT !.writer = NoThread]
    /\ pc' = [pc EXCEPT ![t] = "done"]
    /\ UNCHANGED <<tTerm, tCanonical, tRet, mergerVars>>
    /\ UNCHANGED <<grouperVars, distanceVars, normalizerVars>>

ThreadInputs == {"  ", "data engineer", "data enginer"}

ThreadStep(t) ==
    \/ \E term \in ThreadInputs : Call(t, term)
    \/ RLock(t)
    \/ Lookup(t)
    \/ RUnlock(t)
    \/ Lock(t)
    \/ InsertHit(t)
    \/ SlowPath(t)
    \/ Unlock(t)

ThreadsNext == \E t \in Threads : ThreadStep(t)

\* The positions of a goroutine in NormalizeTerm.
PcLabels ==
    {"idle", "rlock", "lookup", "runlockHit", "runlockMiss", "lockHit", "lockMiss",
     "insert", "slow", "unlock", "done"}

\* Goroutine t is inside a call and not blocked: RLock (line 44) waits for the
\* writer, Lock (lines 48, 58, 66) for the writer and the readers; every other
\* statement of lines 44-100 can run.
Runnable(t) ==
    \/ pc[t] \in {"lookup", "runlockHit", "runlockMiss", "insert", "slow", "unlock"}
    \/ pc[t] = "rlock" /\ mu.writer = NoThread
    \/ pc[t] \in {"lockHit", "lockMiss"} /\ mu.writer = NoThread /\ mu.readers = {}

\* The scheduler runs goroutine t: its next statement executes and its position
\* moves on. Within ThreadsNext these are the steps of ThreadStep(t) other
\* than Call.
Scheduled(t) ==
    /\ Runnable(t)
    /\ \E label \in PcLabels \ {pc[t]} : pc' = [pc EXCEPT ![t] = label]

----------------------------------------------------------------------------
(* MergeSimilarTerms run by one more goroutine.  It takes no lock; a step  *)
(* is the snapshot GetCanonicalTerms returns or one turn of the inner      *)
(* loop.                                                                   *)

\* Lines 337-340: the call, GetCanonicalTerms and the empty map `merged`.  With
\* fewer than two terms the loops end at once.
MergeStart ==
    /\ mPc = "idle"
    /\ nMerges < MaxMerges
    /\ nMerges' = nMerges + 1
    /\ \E canonicals \in GetCanonicalTermsResults(TN) :
           IF Len(canonicals) < 2
           THEN /\ mPc' = "idle"
                /\ mCanonicals' = <<>>
                /\ mI' = 0
                /\ mJ' = 0
           ELSE /\ mPc' = "scan"
                /\ mCanonicals' = canonicals
                /\ mI' = 1
                /\ mJ' = 2
    /\ mMerged' = NoTerms
    /\ UNCHANGED threadVars
    /\ UNCHANGED <<grouperVars, distanceVars, normalizerVars>>

\* Lines 343-373: one turn of the inner loop, for the pair (mI, mJ), and the
\* loop counters' move to the next pair; after the last pair the call returns.
MergePair ==
    /\ mPc = "scan"
    /\ LET term1 == mCanonicals[mI]
           term2 == mCanonicals[mJ]
           freq1 == getFrequency(root, term1)
           freq2 == getFrequency(root, term2)
           first == freq1 > freq2 \/ (freq1 = freq2 /\ Len(term1) >= Len(term2))
           keep == IF first THEN term1 ELSE term2
           merge == IF first THEN term2 ELSE term1
           merges == /\ term1 \notin DOMAIN mMerged
                     /\ term2 \notin DOMAIN mMerged
                     /\ AtLeast(calculateSimilarity(term1, term2), 85, 100)
           last == mI + 1 >= Len(mCanonicals) /\ mJ >= Len(mCanonicals)
       IN  /\ canonicalTerms' = IF merges THEN Put(canonicalTerms, merge, keep)
                                ELSE canonicalTerms
           /\ IF last
              THEN /\ mPc' = "idle"
                   /\ mCanonicals' = <<>>
                   /\ mI' = 0
                   /\ mJ' = 0
                   /\ mMerged' = NoTerms
              ELSE /\ mPc' = "scan"
                   /\ mCanonicals' = mCanonicals
                   /\ mI' = IF mJ >= Len(mCanonicals) THEN mI + 1 ELSE mI
                   /\ mJ' = IF mJ >= Len(mCanonicals) THEN mI + 2 ELSE mJ + 1
                   /\ mMerged' = IF merges THEN Put(mMerged, merge, keep) ELSE mMerged
    /\ UNCHANGED nMerges
    /\ UNCHANGED threadVars
    /\ UNCHANGED <<root, termVariations, fuzzyMatchCache, nOp, nArg, nRet, nList, nCalls>>
    /\ UNCHANGED <<grouperVars, distanceVars>>

MergerNext ==
    \/ MergeStart
    \/ MergePair

----------------------------------------------------------------------------
(* The specifications.  Each runs one component from its constructed      *)
(* state; the others stay as constructed.                                  *)

InitGrouper == NewCategoryGrouper /\ DistanceIdle /\ NewTermNormalizer /\ NoGoroutines

InitDistance == NewCategoryGrouper /\ DistanceDraw /\ NewTermNormalizer /\ NoGoroutines

InitNormalizer == NewCategoryGrouper /\ DistanceIdle /\ NewTermNormalizer /\ NoGoroutines

SpecGrouper == InitGrouper /\ [][GrouperNext]_vars

SpecDistance == InitDistance /\ [][DistanceNext]_vars

SpecNormalizer == InitNormalizer /\ [][NormalizerNext]_vars

InitNearTie == NewCategoryGrouper /\ DistanceIdle /\ NewTermNormalizer /\ NoGoroutines

SpecNearTie == InitNearTie /\ [][NearTieNext]_vars

InitNoMerge == NewCategoryGrouper /\ DistanceIdle /\ NewTermNormalizer /\ NoGoroutines

SpecNoMerge == InitNoMerge /\ [][NoMergeNext]_vars

InitOverlap == NewCategoryGrouper /\ OverlapDraw /\ NewTermNormalizer /\ NoGoroutines

SpecOverlap == InitOverlap /\ [][OverlapNext]_vars

InitBytes == NewCategoryGrouper /\ BytesDraw /\ NewTermNormalizer /\ NoGoroutines

SpecBytes == InitBytes /\ [][DistanceNext]_vars

InitThreads == NewCategoryGrouper /\ DistanceIdle /\ NewTermNormalizer /\ NoGoroutines

\* The goroutines are scheduled fairly: one that is inside a call and can run
\* is not left waiting forever. Nothing obliges a goroutine to start a call.
SpecThreads ==
    InitThreads /\ [][ThreadsNext]_vars /\ \A t \in Threads : WF_pc(Scheduled(t))

\* NormalizeTerm callers and a MergeSimilarTerms caller side by side.
RaceNext ==
    \/ ThreadsNext
    \/ MergerNext

SpecRace == InitThreads /\ [][RaceNext]_vars

----------------------------------------------------------------------------
(* Properties of the Grouper. *)

\* key occurs in s as a whole space-delimited token or run of tokens: an occurrence
\* with the start of s or a space before it and the end of s or a space after it.
OccursAsWords(key, s) ==
    \E from \in 1..(Len(s) - Len(key) + 1) :
        LET to == from + Len(key) - 1 IN
        /\ SubSeq(s, from, to) = key
        /\ from = 1 \/ Char(s, from - 1) = " "
        /\ to = Len(s) \/ Char(s, to + 1) = " "

WholeWordKeys(r, s) == {key \in DOMAIN r : OccursAsWords(key, s)}

\* a and b are one insertion, deletion or substitution of a character apart.
DropChar(s, i) == SubSeq(s, 1, i - 1) \o SubSeq(s, i + 1, Len(s))

OneEditApart(a, b) ==
    \/ /\ Len(a) = Len(b)
       /\ Cardinality({i \in 1..Len(a) : Char(a, i) # Char(b, i)}) = 1
    \/ /\ Len(a) = Len(b) + 1
       /\ \E i \in 1..Len(a) : DropChar(a, i) = b
    \/ /\ Len(b) = Len(a) + 1
       /\ \E i \in 1..Len(b) : DropChar(b, i) = a

\* The keys within one character of s in length and at edit distance <= 1 from s,
\* and those of them at the least distance.
NearKeys(r, s) ==
    {key \in DOMAIN r :
        /\ Len(key) - Len(s) \in {-1, 0, 1}
        /\ key = s \/ OneEditApart(s, key)}

NearestKeys(r, s) == IF s \in DOMAIN r THEN {s} ELSE NearKeys(r, s)

GroupsOf(r, keys) == {r[key] : key \in keys}

\* The category GetGroup was given, lowercase-trimmed.
Cleaned == ToLower(TrimSpace(gArg))

\* C1 as stated: on the Grouper as constructed GetGroup(k) is c for every keyword k the
\* table lists under category c, and on every rule map an input whose lowercase-trimmed
\* form is a rule key gets that key's group.
C1_DirectMatchAnyKey ==
    gOp = "GetGroup" =>
        /\ nAdds = 0 =>
              \A c \in DOMAIN categoryDefinitions :
                  \A i \in 1..Len(categoryDefinitions[c]) :
                      gArg = categoryDefinitions[c][i] => gRet = c
        /\ LET cleaned == Cleaned IN cleaned \in DOMAIN rules => gRet = rules[cleaned]

\* C1, amended: as stated, for an input whose lowercase-trimmed form is not empty (an
\* empty one returns "" even when AddRule stored a rule under the empty key).
C1_DirectMatch ==
    gOp = "GetGroup" =>
        /\ nAdds = 0 =>
              \A c \in DOMAIN categoryDefinitions :
                  \A i \in 1..Len(categoryDefinitions[c]) :
                      gArg = categoryDefinitions[c][i] => gRet = c
        /\ LET cleaned == Cleaned IN
           (cleaned # "" /\ cleaned \in DOMAIN rules) => gRet = rules[cleaned]

\* "hr manager" is a keyword of "hr professional" that holds the keyword "manager" of
\* another category as a whole word.
C1_Witness ==
    gOp = "GetGroup" /\ nAdds = 0 /\ gArg = "hr manager" /\ gRet = "hr professional"

\* C2: two GetGroup calls in a row with the same input on the same rule map return
\* the same group.
C2_Deterministic ==
    [][(gOp = "GetGroup" /\ gOp' = "GetGroup" /\ gArg' = gArg /\ rules' = rules)
          => gRet' = gRet]_vars

\* The case C3 is about: no direct match, and some key is a whole word of the input.
PartialCase(cleaned, words) ==
    /\ gOp = "GetGroup"
    /\ cleaned # ""
    /\ cleaned \notin DOMAIN rules
    /\ words # {}

\* C3 as stated: in the partial case GetGroup returns the group of a whole-word key
\* and never the empty string.
C3_WholeWordNeverEmpty ==
    LET cleaned == Cleaned
        words == WholeWordKeys(rules, cleaned)
    IN  PartialCase(cleaned, words) => gRet \in GroupsOf(rules, words) /\ gRet # ""

\* C3, amended: in the partial case GetGroup returns the group of a key that is a
\* whole word (or run of whole words) of the input; the empty string only as the group
\* such a key was given.
C3_WholeWord ==
    LET cleaned == Cleaned
        words == WholeWordKeys(rules, cleaned)
    IN  PartialCase(cleaned, words) => gRet \in GroupsOf(rules, words)

\* "senior doctor" holds the keyword "doctor" as a word and keywords of other
\* categories ("se", "doc") inside words.
C3_Witness ==
    /\ gOp = "GetGroup"
    /\ gArg = "senior doctor"
    /\ gRet = "doctor"
    /\ Cleaned \notin DOMAIN rules
    /\ "doctor" \in WholeWordKeys(rules, Cleaned)
    /\ \E key \in DOMAIN rules :
          /\ Contains(Cleaned, key)
          /\ ~OccursAsWords(key, Cleaned)
          /\ rules[key] # gRet

\* The case C4 is about: no direct match and no key is a whole word of the input.
FuzzyCase(cleaned) ==
    /\ gOp = "GetGroup"
    /\ cleaned # ""
    /\ cleaned \notin DOMAIN rules
    /\ WholeWordKeys(rules, cleaned) = {}

Blank(s) == \A i \in 1..Len(s) : IsSpace(Char(s, i))

C5_BlankInput ==
    (gOp = "GetGroup" /\ Blank(gArg)) => gRet = ""

\* A blank input classified after AddRule stored a rule under the empty key.
C5_Witness ==
    /\ gOp = "GetGroup"
    /\ gArg = "  "
    /\ gRet = ""
    /\ "" \in DOMAIN rules
    /\ rules[""] = "veterinarian"

\* C6: AddRule(term, group) maps the lowercase form of term to group and leaves every
\* other key as it was.
C6_AddRuleFrame ==
    [][gOp' = "AddRule" =>
          LET key == ToLower(gArg') IN
          /\ key \in DOMAIN rules'
          /\ rules'[key] = gGroup'
          /\ DOMAIN rules' = DOMAIN rules \cup {key}
          /\ \A k \in DOMAIN rules \ {key} : rules'[k] = rules[k]]_vars

\* The second AddRule of a behaviour replaced the group of the base keyword "doctor".
C6_Witness ==
    /\ gOp = "AddRule"
    /\ nAdds = 2
    /\ gArg = "DOCTOR"
    /\ gGroup = "veterinarian"
    /\ rules["doctor"] = "veterinarian"
    /\ DOMAIN rules = BaseKeys

\* C7: the map GetAllGroups returns lists every rule in effect under its group, and
\* no keyword under a group it does not map to.
C7_AllGroupsCurrent ==
    gOp = "GetAllGroups" =>
        /\ \A key \in DOMAIN rules :
              /\ rules[key] \in DOMAIN gAll
              /\ \E i \in 1..Len(gAll[rules[key]]) : ToLower(gAll[rules[key]][i]) = key
        /\ \A c \in DOMAIN gAll :
              \A i \in 1..Len(gAll[c]) :
                  /\ ToLower(gAll[c][i]) \in DOMAIN rules
                  /\ rules[ToLower(gAll[c][i])] = c

----------------------------------------------------------------------------
(* C8  levenshteinDistance is the edit distance. *)

\* The strings one insertion, deletion or substitution of a character away from s.
Edits(s) ==
    {SubSeq(s, 1, i) \o c \o SubSeq(s, i + 1, Len(s)) : i \in 0..Len(s), c \in Alphabet}
    \cup {DropChar(s, i) : i \in 1..Len(s)}
    \cup {SubSeq(s, 1, i - 1) \o c \o SubSeq(s, i + 1, Len(s)) : i \in 1..Len(s), c \in Alphabet}

\* The strings at most n edits away from a.
RECURSIVE Within(_, _)
Within(a, n) ==
    IF n = 0 THEN {a}
    ELSE LET near == Within(a, n - 1) IN near \cup UNION {Edits(s) : s \in near}

EditBalls == [a \in ShortStrings |-> [n \in 0..MaxLen |-> Within(a, n)]]

\* The least number of edits turning a into b.
MinEdits(a, b) ==
    CHOOSE n \in 0..MaxLen :
        /\ b \in EditBalls[a][n]
        /\ \A m \in 0..(n - 1) : b \notin EditBalls[a][m]

\* C8: for all strings a and b over the alphabet, levenshteinDistance(a, b) is the
\* least number of single-character insertions, deletions and substitutions that
\* turn a into b; distance(s, s) = 0, distance("", s) = len(s), distance(a, b) =
\* distance(b, a), and distance("kitten", "sitting") = 3.
C8_Levenshtein ==
    dOp = "levenshteinDistance" =>
        /\ (dS1 \in ShortStrings /\ dS2 \in ShortStrings) => dRet = MinEdits(dS1, dS2)
        /\ dS1 = dS2 => dRet = 0
        /\ dS1 = "" => dRet = Len(dS2)
        /\ dRet = levenshteinDistance(dS2, dS1)
        /\ (dS1 = "kitten" /\ dS2 = "sitting") => dRet = 3

C8_Witness ==
    /\ dOp = "levenshteinDistance"
    /\ dS1 = "abb"
    /\ dS2 = "ba"
    /\ dRet = 2
    /\ "ba" \notin Edits("abb")

----------------------------------------------------------------------------
(* C9  NormalizeTerm of an input that is empty once cleaned. *)

\* C9: NormalizeTerm of an input whose lowercase-trimmed form is empty returns the
\* input as given and leaves the trie, canonicalTerms, termVariations and the
\* cache as they were.
C9_EmptyInputUnchanged ==
    [][(nOp' = "NormalizeTerm" /\ ToLower(TrimSpace(nArg')) = "")
          => (nRet' = nArg' /\ UNCHANGED tnVars)]_vars

C9_Witness ==
    /\ nOp = "NormalizeTerm"
    /\ nArg = "  "
    /\ nRet = "  "
    /\ DOMAIN canonicalTerms = {"data engineer", "data enginer"}
    /\ DOMAIN fuzzyMatchCache = {"data enginer"}
    /\ root["data enginer"].frequency = 1

----------------------------------------------------------------------------
(* C10  NormalizeTerm on its own result. *)

\* C10: in every reachable state of the normalizer, MergeSimilarTerms included,
\* the string NormalizeTerm returned is a term NormalizeTerm maps to itself:
\* NormalizeTerm(NormalizeTerm(x)) = NormalizeTerm(x).
C10_Idempotent ==
    nOp = "NormalizeTerm" =>
        \A again \in NormalizeTermOutcomes(TN, nRet) : again.ret = nRet

----------------------------------------------------------------------------
(* C11  Concurrent NormalizeTerm calls with the same term. *)

\* The number of times term stands in the list.
Occurrences(list, term) == Cardinality({i \in 1..Len(list) : list[i] = term})

\* C11: goroutines that normalize the same term concurrently all return the same
\* canonical value; the term has its entry in canonicalTerms, and the variation
\* list of a canonical term was seeded once: the goroutine that finds the term
\* registered when it gets Lock registers nothing again.
C11_SameTermOneRegistration ==
    /\ [](\A t1, t2 \in Threads :
             (/\ pc[t1] = "done"
              /\ pc[t2] = "done"
              /\ CleanedOf(t1) # ""
              /\ CleanedOf(t1) = CleanedOf(t2))
             => /\ tRet[t1] = tRet[t2]
                /\ CleanedOf(t1) \in DOMAIN canonicalTerms
                /\ canonicalTerms[CleanedOf(t1)] = tRet[t1])
    /\ [](\A term \in DOMAIN termVariations :
             Occurrences(termVariations[term], term) = 1)
    /\ [][\A t \in Threads :
             (/\ pc[t] = "slow"
              /\ pc'[t] = "unlock"
              /\ CleanedOf(t) \in DOMAIN canonicalTerms)
             => /\ canonicalTerms' = canonicalTerms
                /\ termVariations' = termVariations]_vars

\* Both goroutines saw "data engineer" unseen under RLock; the second to get Lock
\* resolved it through the trie entry the first had made.
C11_Witness ==
    /\ \A t \in Threads : pc[t] = "done" /\ tTerm[t] = "data engineer"
    /\ \A t \in Threads : tRet[t] = "data engineer"
    /\ root["data engineer"].frequency = MaxThreads
    /\ "data engineer" \in DOMAIN fuzzyMatchCache
    /\ termVariations["data engineer"] = <<"data engineer">>

----------------------------------------------------------------------------
(* C12  Mutations and the exclusive lock. *)

\* C12: a step that changes the trie, canonicalTerms, termVariations or the cache
\* is a step of the goroutine holding Lock, and while MergeSimilarTerms runs no
\* NormalizeTerm call takes a step.
C12_MutationUnderLock ==
    [][/\ tnVars' # tnVars =>
              /\ mu.writer # NoThread
              /\ pc'[mu.writer] # pc[mu.writer]
       /\ mPc = "scan" => pc' = pc]_vars

----------------------------------------------------------------------------
(* C13  Every NormalizeTerm call returns and holds no lock. *)

\* C13: under fair scheduling every NormalizeTerm call returns; a goroutine asks
\* for Lock only after it gave up RLock, and holds no lock once it has returned.
C13_CallsReturn ==
    /\ [](\A t \in Threads :
             /\ pc[t] \in {"lockHit", "lockMiss"} => t \notin mu.readers
             /\ pc[t] \in {"idle", "done"} => (mu.writer # t /\ t \notin mu.readers))
    /\ \A t \in Threads : (pc[t] \notin {"idle", "done"}) ~> (pc[t] = "done")

\* Goroutine 1 is about to release Lock; goroutine 2 has released RLock after a
\* miss and waits for Lock.
C13_Witness ==
    /\ mu.writer = 1
    /\ pc[1] = "unlock"
    /\ pc[2] = "lockMiss"
    /\ tTerm[1] = tTerm[2]

----------------------------------------------------------------------------
(* C14  What GetCanonicalTerms returns. *)

\* The terms that are their own canonical term.
CanonicalSet(ct) == {term \in DOMAIN ct : ct[term] = term}

\* C14: GetCanonicalTerms returns exactly the terms t with canonicalTerms[t] = t,
\* each once and no variant key, in order of non-increasing frequency.
C14_ExactlyCanonicalTerms ==
    nOp = "GetCanonicalTerms" =>
        /\ {nList[i] : i \in 1..Len(nList)} = CanonicalSet(canonicalTerms)
        /\ Len(nList) = Cardinality(CanonicalSet(canonicalTerms))
        /\ \A i, j \in 1..Len(nList) :
               i < j => getFrequency(root, nList[i]) >= getFrequency(root, nList[j])

----------------------------------------------------------------------------
(* C15  MergeSimilarTerms and the number of canonical terms. *)

\* C15: a MergeSimilarTerms call makes no term canonical that was not canonical
\* before it, so the number of canonical terms after the call is at most the
\* number before it.
C15_MergeNeverAddsCanonical ==
    [][nOp' = "MergeSimilarTerms" =>
          /\ CanonicalSet(canonicalTerms') \subseteq CanonicalSet(canonicalTerms)
          /\ Cardinality(CanonicalSet(canonicalTerms'))
                 <= Cardinality(CanonicalSet(canonicalTerms))]_vars

\* A merge took the one canonical term away: "data engineer" now maps to its own
\* variant "data engineers".
C15_Witness ==
    /\ nOp = "MergeSimilarTerms"
    /\ DOMAIN canonicalTerms = {"data engineer", "data engineers"}
    /\ canonicalTerms["data engineer"] = "data engineers"
    /\ canonicalTerms["data engineers"] = "data engineer"
    /\ CanonicalSet(canonicalTerms) = {}

----------------------------------------------------------------------------
(* C16  MergeSimilarTerms twice in a row. *)

\* C16: right after a MergeSimilarTerms call, a second call leaves canonicalTerms
\* as it is, whatever order GetCanonicalTerms gives the terms of equal frequency.
C16_MergeIdempotent ==
    nOp = "MergeSimilarTerms" =>
        \A canonicals \in GetCanonicalTermsResults(TN) :
            MergeScan(root, canonicals, 1, 2, NoTerms, canonicalTerms) = canonicalTerms

----------------------------------------------------------------------------
(* C17  The cache and canonicalTerms. *)

\* C17: every key of the cache is a key of canonicalTerms with the same value.
C17_CacheAgrees ==
    \A k \in DOMAIN fuzzyMatchCache :
        /\ k \in DOMAIN canonicalTerms
        /\ fuzzyMatchCache[k] = canonicalTerms[k]

----------------------------------------------------------------------------
(* C18  The trie and canonicalTerms. *)

\* C18: the terminal paths of the trie are the keys of canonicalTerms, and the
\* node of each key carries the key's value in canonicalTerms.
C18_TrieMirrorsCanonicalTerms ==
    /\ {p \in DOMAIN root : root[p].isEnd} = DOMAIN canonicalTerms
    /\ \A k \in DOMAIN canonicalTerms :
           k \in DOMAIN root /\ root[k].canonicalTerm = canonicalTerms[k]

----------------------------------------------------------------------------
(* C19  Trie frequencies. *)

\* C19: no step lowers a frequency. The step of a NormalizeTerm call that works
\* under Lock (the insert after a hit under RLock, or the slow path: double-check
\* hit, prefix match, fuzzy match or new canonical term) raises the frequency of
\* the call's cleaned term by exactly 1 and leaves every other frequency as it
\* is; no other step touches the trie, and a call of a non-blank term returns
\* after exactly one such step.
C19_FrequencyPlusOne ==
    [][/\ \A p \in DOMAIN root :
              p \in DOMAIN root' /\ getFrequency(root', p) >= getFrequency(root, p)
       /\ \A t \in Threads :
              (pc[t] \in {"insert", "slow"} /\ pc'[t] = "unlock") =>
                  /\ getFrequency(root', CleanedOf(t)) = getFrequency(root, CleanedOf(t)) + 1
                  /\ \A p \in DOMAIN root' \ {CleanedOf(t)} :
                         getFrequency(root', p) = getFrequency(root, p)
       /\ root' # root =>
              \E t \in Threads : pc[t] \in {"insert", "slow"} /\ pc'[t] = "unlock"
       /\ \A t \in Threads :
              /\ (pc'[t] = "unlock" /\ pc[t] # "unlock") => pc[t] \in {"insert", "slow"}
              /\ (pc'[t] = "done" /\ pc[t] \notin {"idle", "done"}) => pc[t] = "unlock"
              /\ (pc'[t] = "done" /\ pc[t] \in {"idle", "done"}) =>
                     \/ UNCHANGED <<pc[t], tTerm[t], tRet[t]>>
                     \/ \E term \in {tTerm'[t]} : ToLower(TrimSpace(term)) = ""]_vars

\* Goroutine 2 missed "data enginer" under RLock, goroutine 1 registered it as an
\* alias in between, and goroutine 2 found it in the cache under Lock: the
\* frequency is 2 after the two calls.
C19_Witness ==
    /\ pc[1] = "done"
    /\ pc[2] = "unlock"
    /\ tTerm[1] = "data enginer"
    /\ tTerm[2] = "data enginer"
    /\ tCanonical[2] = ""
    /\ tRet[2] = "data engineer"
    /\ getFrequency(root, "data enginer") = 2
    /\ getFrequency(root, "data engineer") = 1

----------------------------------------------------------------------------
(* C20  The keys of canonicalTerms. *)

----------------------------------------------------------------------------
(* C21  The prefix heuristic. *)

\* The label at the longest registered term that is a prefix of t; "" when no
\* registered term is a prefix of t.
PrefixCandidate(rt, t) ==
    LET registered == {k \in 1..Len(t) :
                          Prefix(t, k) \in DOMAIN rt /\ rt[Prefix(t, k)].isEnd}
    IN  IF registered = {} THEN ""
        ELSE rt[Prefix(t, CHOOSE k \in registered : \A j \in registered : j <= k)].canonicalTerm

\* The acceptance rule: a short term equals the candidate; a longer one shares
\* with it a prefix of at least 80% of the shorter of the two.
PrefixRule(t, c) ==
    LET shorter == IF Len(c) < Len(t) THEN Len(c) ELSE Len(t) IN
    \/ Len(t) < 5 /\ t = c
    \/ Len(t) >= 5 /\ 10 * Len(longestCommonPrefix(t, c)) >= 8 * shorter

\* A NormalizeTerm(term) step that ran the prefix step as stated: accepted, the
\* term is cached and mapped to the candidate and the candidate is returned;
\* otherwise the step left everything to the fuzzy match and the registration.
PrefixStepAsStated(term) ==
    LET t == ToLower(TrimSpace(term))
        c == PrefixCandidate(root, t)
    IN  IF c # "" /\ PrefixRule(t, c)
        THEN /\ t \in DOMAIN fuzzyMatchCache'
             /\ fuzzyMatchCache'[t] = c
             /\ canonicalTerms'[t] = c
             /\ nRet' = c
        ELSE \E out \in ResolveByFuzzy(TN, t) :
                 /\ tnVars' = <<out.tn.root, out.tn.canonicalTerms,
                                out.tn.termVariations, out.tn.fuzzyMatchCache>>
                 /\ nRet' = out.ret

\* C21 as stated: for every term not yet in the cache, NormalizeTerm resolves the
\* term by the prefix heuristic exactly when the rule accepts the candidate.
C21_PrefixWhenNotCached ==
    [][\A term \in {nArg'} :
           (/\ nOp = ""
            /\ nOp' = "NormalizeTerm"
            /\ ToLower(TrimSpace(term)) # ""
            /\ ToLower(TrimSpace(term)) \notin DOMAIN fuzzyMatchCache)
           => PrefixStepAsStated(term)]_vars

\* C21: for a term that is neither in the cache nor a key of canonicalTerms, the
\* prefix heuristic resolves the term to the candidate (the label at the longest
\* registered term that is a prefix of it) exactly when the term is shorter than
\* 5 and equals the candidate, or is not and shares with the candidate a prefix of
\* at least 80% of the shorter of the two; on acceptance the cache and
\* canonicalTerms map the term to the candidate, which is returned; without a
\* candidate, or with a rejected one, the step changes nothing.
C21_PrefixHeuristic ==
    [][\A term \in {nArg'} :
           (/\ nOp = ""
            /\ nOp' = "NormalizeTerm"
            /\ ToLower(TrimSpace(term)) # ""
            /\ ToLower(TrimSpace(term)) \notin DOMAIN fuzzyMatchCache
            /\ ToLower(TrimSpace(term)) \notin DOMAIN canonicalTerms)
           => PrefixStepAsStated(term)]_vars

\* "data engineers" was resolved to "data engineer" by the prefix step: it is
\* cached and mapped, and the variation list was not appended to.
C21_Witness ==
    /\ nOp = "NormalizeTerm"
    /\ nArg = "data engineers"
    /\ nRet = "data engineer"
    /\ "data engineers" \in DOMAIN fuzzyMatchCache
    /\ fuzzyMatchCache["data engineers"] = "data engineer"
    /\ canonicalTerms["data engineers"] = "data engineer"
    /\ termVariations["data engineer"] = <<"data engineer">>

----------------------------------------------------------------------------
(* C22  The fuzzy match and the registration of a new canonical term. *)

\* The token sets' overlap as a fraction <<numerator, denominator>>: the size of
\* the intersection over the size of the larger set; 1 when both are empty and 0
\* when one is.
TokenSetOverlap(a, b) ==
    LET set1 == {Fields(a)[i] : i \in 1..Len(Fields(a))}
        set2 == {Fields(b)[i] : i \in 1..Len(Fields(b))}
    IN  IF set1 = {} /\ set2 = {} THEN <<1, 1>>
        ELSE IF set1 = {} \/ set2 = {} THEN <<0, 1>>
        ELSE <<Cardinality(set1 \cap set2), maxTwo(Cardinality(set1), Cardinality(set2))>>

\* The similarity score as a fraction <<numerator, denominator>>, in exact
\* arithmetic:
\*   (0.25 lcs/maxLen + 0.5 (1 - distance/maxLen) + 0.25 tokenOverlap + bonus) * penalty
Score(a, b) ==
    LET maxLen == maxTwo(Len(a), Len(b))
        lenDiff == absTwo(Len(a) - Len(b))
    IN  IF maxLen = 0 THEN <<0, 1>>
        ELSE LET penalty == IF lenDiff * 10 > maxLen * 2 THEN 8 ELSE 10
                 lcs == longestCommonSubsequence(a, b)
                 distance == levenshteinDistance(a, b)
                 overlap == TokenSetOverlap(a, b)
                 prefix == Len(longestCommonPrefix(a, b))
                 tenths == IF prefix >= 5 /\ prefix * 10 > maxLen * 6 THEN 1 ELSE 0
             IN  <<(25 * lcs * overlap[2]
                     + 50 * (maxLen - distance) * overlap[2]
                     + 25 * overlap[1] * maxLen
                     + 10 * tenths * maxLen * overlap[2]) * penalty,
                   1000 * maxLen * overlap[2]>>

\* score >= n / 100
ScoreAtLeast(score, n) == score[1] * 100 >= n * score[2]

\* x <= y
ScoreLeq(x, y) == x[1] * y[2] <= y[1] * x[2]

\* A NormalizeTerm(term) step past the prefix step: the term is resolved to a
\* canonical entry of the highest score when that score is at least 0.80, and is
\* registered as a new canonical term when no entry reaches 0.80.
FuzzyStepAsStated(term) ==
    LET t == ToLower(TrimSpace(term))
        canon == CanonicalSet(canonicalTerms)
        reaching == {c \in canon : ScoreAtLeast(Score(t, c), 80)}
    IN  IF reaching # {}
        THEN /\ nRet' \in reaching
             /\ \A c \in canon : ScoreLeq(Score(t, c), Score(t, nRet'))
             /\ canonicalTerms'[t] = nRet'
        ELSE /\ nRet' = t
             /\ canonicalTerms'[t] = t
             /\ termVariations'[t] = <<t>>
             /\ root'[t].isEnd
             /\ root'[t].canonicalTerm = t

\* C22: a term that is new and that the prefix heuristic does not accept is
\* resolved to the canonical entry of the highest similarity when that
\* similarity is at least 0.80, exactly 0.80 included; when no canonical entry
\* reaches 0.80 it is registered as a new canonical term (mapped to itself,
\* variation list of itself alone, trie entry labelled with it) and returned.
C22_FuzzyOrNewCanonical ==
    [][\A term \in {nArg'} :
           LET t == ToLower(TrimSpace(term))
               c == PrefixCandidate(root, t)
           IN  (/\ nOp = ""
                /\ nOp' = "NormalizeTerm"
                /\ t # ""
                /\ t \notin DOMAIN fuzzyMatchCache
                /\ t \notin DOMAIN canonicalTerms
                /\ ~(c # "" /\ PrefixRule(t, c)))
               => FuzzyStepAsStated(term)]_vars

----------------------------------------------------------------------------
(* C23  Which term a merge keeps. *)

\* C23: a term whose entry a MergeSimilarTerms call changes was merged into the
\* term it is mapped to after the call: the kept term has the higher frequency,
\* or the same frequency and is no shorter, and the similarity of the two is not
\* below 0.85.
C23_MergeKeepsStronger ==
    [][nOp' = "MergeSimilarTerms" =>
           \A other \in DOMAIN canonicalTerms :
               canonicalTerms'[other] # canonicalTerms[other] =>
                   LET kept == canonicalTerms'[other]
                       freqKept == getFrequency(root, kept)
                       freqOther == getFrequency(root, other)
                   IN  /\ kept # other
                       /\ \/ freqKept > freqOther
                          \/ freqKept = freqOther /\ Len(kept) >= Len(other)
                       /\ ScoreAtLeast(Score(kept, other), 85)]_vars

\* "data engineers" was seen twice and "data engineer" once; the merge kept the
\* more frequent one and mapped "data engineer" to it.
C23_Witness ==
    /\ nOp = "MergeSimilarTerms"
    /\ "data engineer" \in DOMAIN canonicalTerms
    /\ canonicalTerms["data engineer"] = "data engineers"
    /\ getFrequency(root, "data engineers") > getFrequency(root, "data engineer")

----------------------------------------------------------------------------
(* C24  One merge per term within a call. *)

\* The terms a step merged away: the keys whose entry the step changed.
MergedAway == {term \in DOMAIN canonicalTerms :
                  canonicalTerms'[term] # canonicalTerms[term]}

\* C24: within one MergeSimilarTerms call a term takes part in at most one merge:
\* no term is the kept side of two merges, and no kept term is itself merged
\* away in the same call.
C24_OneMergePerTerm ==
    [][nOp' = "MergeSimilarTerms" =>
           \A other1, other2 \in MergedAway :
               /\ other1 # other2 => canonicalTerms'[other1] # canonicalTerms'[other2]
               /\ canonicalTerms'[other1] \notin MergedAway]_vars

----------------------------------------------------------------------------
(* C25  The variation lists. *)

\* C25: when no merge is made, every key of canonicalTerms stands in the
\* variation list of the term it is mapped to, and a step only appends to the
\* lists: what a list held stays, in its place.
C25_VariationsRecordAll ==
    /\ [](\A t \in DOMAIN canonicalTerms :
             /\ canonicalTerms[t] \in DOMAIN termVariations
             /\ Occurrences(termVariations[canonicalTerms[t]], t) >= 1)
    /\ [][\A c \in DOMAIN termVariations :
             /\ c \in DOMAIN termVariations'
             /\ Len(termVariations'[c]) >= Len(termVariations[c])
             /\ SubSeq(termVariations'[c], 1, Len(termVariations[c])) = termVariations[c]]_vars

----------------------------------------------------------------------------
(* C26  The keys of the rule map. *)

\* C26: every key of the rule map is lowercase and has no surrounding
\* whitespace: it is its own cleaned form, the form GetGroup looks up.
C26_RuleKeysClean ==
    \A key \in DOMAIN rules : key = ToLower(TrimSpace(key))

----------------------------------------------------------------------------
(* C27  The token overlap. *)

\* C27: the token overlap of two strings is the size of the intersection of
\* their token sets over the size of the larger set (1.0 when both sets are
\* empty, 0.0 when one is), whatever tokens are repeated, and is the same for
\* the two orders of the arguments.
C27_TokenSetOverlap ==
    dOp = "calculateTokenOverlap" =>
        /\ dRet = F64Div(TokenSetOverlap(dS1, dS2)[1], TokenSetOverlap(dS1, dS2)[2])
        /\ dRet = calculateTokenOverlap(Fields(dS2), Fields(dS1))

----------------------------------------------------------------------------
(* C28  Characters of several bytes. *)

\* The text without its i-th code point.
DropCodePoint(text, i) == SubSeq(text, 1, i - 1) \o SubSeq(text, i + 1, Len(text))

\* The two texts differ by one code point of several bytes: substituted, inserted
\* or deleted.
MultiByteEdit(a, b) ==
    \/ /\ Len(a) = Len(b)
       /\ \E i \in 1..Len(a) :
              /\ a[i] # b[i]
              /\ a[i] >= 128 \/ b[i] >= 128
              /\ DropCodePoint(a, i) = DropCodePoint(b, i)
    \/ /\ Len(b) = Len(a) + 1
       /\ \E i \in 1..Len(b) : b[i] >= 128 /\ DropCodePoint(b, i) = a
    \/ /\ Len(a) = Len(b) + 1
       /\ \E i \in 1..Len(a) : a[i] >= 128 /\ DropCodePoint(a, i) = b

\* The string of each text.
Encoded == [text \in Texts |-> Utf8(text)]

\* C28: the distance of two strings that differ by the substitution, insertion or
\* deletion of one character of several bytes is exactly 1.
C28_CodePointDistance ==
    dOp = "levenshteinDistance" =>
        \A a \in Texts :
            dS1 = Encoded[a] =>
                \A b \in Texts :
                    (dS2 = Encoded[b] /\ MultiByteEdit(a, b)) => dRet = 1

----------------------------------------------------------------------------
(* C29  No chains and no cycles in canonicalTerms. *)

\* C29: every value of canonicalTerms is a canonical term, a key mapped to
\* itself, so that a normalizer with a key has a canonical term.
C29_ValuesAreCanonical ==
    /\ \A t \in DOMAIN canonicalTerms :
           /\ canonicalTerms[t] \in DOMAIN canonicalTerms
           /\ canonicalTerms[canonicalTerms[t]] = canonicalTerms[t]
    /\ DOMAIN canonicalTerms # {} => CanonicalSet(canonicalTerms) # {}

----------------------------------------------------------------------------
(* C30  A term's canonical assignment is stable. *)

\* C30: with NormalizeTerm calls alone, interleaved in any way, a call that has
\* returned c for a term left the term mapped to c, and an entry of
\* canonicalTerms never takes another value: every later call for the term
\* returns c, and a goroutine that reaches the slow path after another resolved
\* the term writes the same value.
C30_AssignmentStable ==
    /\ [](\A t \in Threads :
             (pc[t] = "done" /\ CleanedOf(t) # "")
             => /\ CleanedOf(t) \in DOMAIN canonicalTerms
                /\ canonicalTerms[CleanedOf(t)] = tRet[t])
    /\ [][\A x \in DOMAIN canonicalTerms :
             /\ x \in DOMAIN canonicalTerms'
             /\ canonicalTerms'[x] = canonicalTerms[x]]_vars

\* "data enginer" was resolved to "data engineer" by the fuzzy match; a later call
\* for it, by the other goroutine, returned the same.
C30_Witness ==
    /\ \A t \in Threads : pc[t] = "done" /\ tTerm[t] = "data enginer"
    /\ \A t \in Threads : tRet[t] = "data engineer"
    /\ canonicalTerms["data enginer"] = "data engineer"
    /\ root["data enginer"].frequency >= 2

====
